---- MODULE Spec2Model ----
(***************************************************************************)
(* Booking and review rules of the travel-listing backend.                 *)
(*                                                                         *)
(* The relational store is three tables: listings (a function from the     *)
(* listing ids that exist to their rows), bookings and reviews (sequences  *)
(* of rows, a row's primary key being its index).  Every HTTP handler is   *)
(* one action, the serializer's validation and the database constraints    *)
(* included; for two creates served at the same time the handler is also   *)
(* given as its two steps, is_valid and perform_create, with inflight the  *)
(* request each worker holds between them.  Dates are day ordinals, money  *)
(* is an integer amount.                                                   *)
(* A request body is a function from the keys the client sent to their     *)
(* values, so that a key that was not sent is absent, as in data.get().    *)
(***************************************************************************)
EXTENDS Integers, Sequences, FiniteSets, TLC

VARIABLES listings, bookings, reviews, response, inflight

vars == <<listings, bookings, reviews, response, inflight>>

(***************************************************************************)
(* Bounds                                                                  *)
(***************************************************************************)
MaxDay == 2
MaxBookings == 2
MaxReviews == 2

Days == 0..MaxDay

(***************************************************************************)
(* Request bodies                                                          *)
(***************************************************************************)
\* data.get(key) of a key that was not sent (None)
Absent == -1

Has(data, k) == k \in DOMAIN data

Get(data, k) == IF Has(data, k) THEN data[k] ELSE Absent

Extend(r, k, v) == [x \in DOMAIN r \cup {k} |-> IF x = k THEN v ELSE r[x]]

EmptyBody == [x \in {} |-> Absent]

\* every body of S with key k added, for each value of V
Req(S, k, V) == {Extend(r, k, v) : r \in S, v \in V}

\* every body of S, with and without key k
Opt(S, k, V) == S \cup Req(S, k, V)

(***************************************************************************)
(* models.py                                                               *)
(***************************************************************************)
BOOKING_STATUS == {"pending", "confirmed", "cancelled", "completed"}

\* auth_user rows: two guests and the host of the listings; request.user of an
\* unauthenticated request is Anonymous
Users == {1, 2, 3}

Anonymous == 0

\* duration_nights counting the day of check-out as a night
duration_nights_inclusive(b) == b.check_out_date - b.check_in_date + 1

\* Booking.duration_nights
duration_nights(b) == b.check_out_date - b.check_in_date

\* Booking.calculate_total_price
calculate_total_price(b) == listings[b.listing].price_per_night * duration_nights(b)

\* check_out_after_check_in dropped from the table
no_check_out_after_check_in(b) == TRUE

\* Booking.Meta.constraints: check_out_after_check_in
check_out_after_check_in(b) == b.check_out_date > b.check_in_date

(***************************************************************************)
(* serializers.py: BookingSerializer                                       *)
(***************************************************************************)
\* conflicting_bookings with the two date comparisons made inclusive
conflicting_bookings_inclusive(listing, check_in, check_out, instance) ==
    {i \in 1..Len(bookings) :
        /\ bookings[i].listing = listing
        /\ bookings[i].status \in {"confirmed", "pending"}
        /\ bookings[i].check_in_date <= check_out
        /\ bookings[i].check_out_date >= check_in
        /\ i # instance}

\* conflicting_bookings without the exclusion of the booking being updated
conflicting_bookings_with_self(listing, check_in, check_out, instance) ==
    {i \in 1..Len(bookings) :
        /\ bookings[i].listing = listing
        /\ bookings[i].status \in {"confirmed", "pending"}
        /\ bookings[i].check_in_date < check_out
        /\ bookings[i].check_out_date > check_in}

\* Booking.objects.filter(listing=..., status__in=[...], check_in_date__lt=check_out,
\* check_out_date__gt=check_in), then .exclude(booking_id=instance) when updating;
\* instance = 0 is self.instance of a create (None)
conflicting_bookings(listing, check_in, check_out, instance) ==
    {i \in 1..Len(bookings) :
        /\ bookings[i].listing = listing
        /\ bookings[i].status \in {"confirmed", "pending"}
        /\ bookings[i].check_in_date < check_out
        /\ bookings[i].check_out_date > check_in
        /\ i # instance}

\* BookingSerializer.validate without the test of listing.available
validate_ignoring_available(data, instance) ==
    LET check_in == Get(data, "check_in_date")
        check_out == Get(data, "check_out_date")
        listing_id == Get(data, "listing_id")
        number_of_guests == IF Has(data, "number_of_guests")
                            THEN data["number_of_guests"] ELSE 1
    IN  IF check_out # Absent /\ check_in # Absent /\ check_out <= check_in
        THEN "Check-out date must be after check-in date"
        ELSE IF listing_id = Absent THEN "ok"
        ELSE IF listing_id \notin DOMAIN listings THEN "Invalid listing ID"
        ELSE IF number_of_guests > listings[listing_id].max_guests
        THEN "Number of guests exceeds maximum allowed"
        ELSE IF /\ check_in # Absent
                /\ check_out # Absent
                /\ conflicting_bookings(listing_id, check_in, check_out, instance) # {}
        THEN "These dates are not available"
        ELSE "ok"

\* BookingSerializer.validate: "ok" or the ValidationError it raises
validate(data, instance) ==
    LET check_in == Get(data, "check_in_date")
        check_out == Get(data, "check_out_date")
        listing_id == Get(data, "listing_id")
        number_of_guests == IF Has(data, "number_of_guests")
                            THEN data["number_of_guests"] ELSE 1
    IN  IF check_out # Absent /\ check_in # Absent /\ check_out <= check_in
        THEN "Check-out date must be after check-in date"
        ELSE IF listing_id = Absent THEN "ok"
        ELSE IF listing_id \notin DOMAIN listings THEN "Invalid listing ID"
        ELSE IF ~listings[listing_id].available
        THEN "This listing is not available for booking"
        ELSE IF number_of_guests > listings[listing_id].max_guests
        THEN "Number of guests exceeds maximum allowed"
        ELSE IF /\ check_in # Absent
                /\ check_out # Absent
                /\ conflicting_bookings(listing_id, check_in, check_out, instance) # {}
        THEN "These dates are not available"
        ELSE "ok"

\* the serializer fields a create or a full update must carry: listing_id is
\* declared required, the three others are model fields without a default
BookingRequired == {"listing_id", "check_in_date", "check_out_date", "total_price"}

\* the validators of the fields of the body, which run before validate:
\* number_of_guests has MinValueValidator(1), status has the choices of
\* BOOKING_STATUS; "ok" or the ValidationError
BookingFieldErrors(data) ==
    IF Has(data, "number_of_guests") /\ data["number_of_guests"] < 1
    THEN "Ensure this value is greater than or equal to 1"
    ELSE IF Has(data, "status") /\ data["status"] \notin BOOKING_STATUS
    THEN "Not a valid choice"
    ELSE "ok"

\* create: User.objects.get(id=user_id) raises DoesNotExist
UserDoesNotExist(data) == Has(data, "user_id") /\ data["user_id"] \notin Users

\* create: validated_data['user'], Anonymous when neither user_id nor an
\* authenticated request.user gives one
ResolvedUser(data, auth) == IF Has(data, "user_id") THEN data["user_id"] ELSE auth

\* BookingSerializer.create without the recalculation: the total_price of the
\* request is stored
BookingSerializer_create_client_price(data, auth) ==
    [listing |-> data["listing_id"],
     user |-> IF Has(data, "user_id") THEN data["user_id"] ELSE auth,
     check_in_date |-> data["check_in_date"],
     check_out_date |-> data["check_out_date"],
     number_of_guests |-> IF Has(data, "number_of_guests")
                          THEN data["number_of_guests"] ELSE 1,
     total_price |-> data["total_price"],
     status |-> IF Has(data, "status") THEN data["status"] ELSE "pending"]

\* BookingSerializer.create: the row handed to Booking.objects.create
BookingSerializer_create(data, auth) ==
    LET listing == data["listing_id"]
        nights == data["check_out_date"] - data["check_in_date"]
    IN  [listing |-> listing,
         user |-> ResolvedUser(data, auth),
         check_in_date |-> data["check_in_date"],
         check_out_date |-> data["check_out_date"],
         number_of_guests |-> IF Has(data, "number_of_guests")
                              THEN data["number_of_guests"] ELSE 1,
         total_price |-> listings[listing].price_per_night * nights,
         status |-> IF Has(data, "status") THEN data["status"] ELSE "pending"]

\* ModelSerializer.update as BookingSerializer inherits it: setattr of every
\* validated key (listing_id and user_id are the foreign keys' columns)
BookingSerializer_update(b, data) ==
    [listing |-> IF Has(data, "listing_id") THEN data["listing_id"] ELSE b.listing,
     user |-> IF Has(data, "user_id") THEN data["user_id"] ELSE b.user,
     check_in_date |-> IF Has(data, "check_in_date")
                       THEN data["check_in_date"] ELSE b.check_in_date,
     check_out_date |-> IF Has(data, "check_out_date")
                        THEN data["check_out_date"] ELSE b.check_out_date,
     number_of_guests |-> IF Has(data, "number_of_guests")
                          THEN data["number_of_guests"] ELSE b.number_of_guests,
     total_price |-> IF Has(data, "total_price")
                     THEN data["total_price"] ELSE b.total_price,
     status |-> IF Has(data, "status") THEN data["status"] ELSE b.status]

\* the insert or update of a bookings row: the NOT NULL and foreign key of
\* user, and the check constraint
BookingRowAccepted(b) == b.user \in Users /\ check_out_after_check_in(b)

Response(op, code, detail) == [op |-> op, code |-> code, detail |-> detail]

(***************************************************************************)
(* views.py: BookingViewSet                                                *)
(***************************************************************************)
\* POST /bookings/ with the save made before the answer of the validator is
\* looked at: a refused booking of an existing listing is stored all the same
BookingViewSet_create_save_first(data, auth) ==
    /\ Len(bookings) < MaxBookings
    /\ LET err == validate(data, 0)
       IN  IF ~(BookingRequired \subseteq DOMAIN data) \/ BookingFieldErrors(data) # "ok"
           THEN /\ response' = Response("create", 400, "This field is required")
                /\ UNCHANGED bookings
           ELSE IF data["listing_id"] \notin DOMAIN listings
           THEN /\ response' = Response("create", 400, err)
                /\ UNCHANGED bookings
           ELSE /\ bookings' = Append(bookings, BookingSerializer_create(data, auth))
                /\ response' = IF err # "ok" THEN Response("create", 400, err)
                               ELSE Response("create", 201, "created")
    /\ UNCHANGED <<listings, reviews, inflight>>

\* POST /bookings/: is_valid, perform_create, serializer.save
BookingViewSet_create(data, auth) ==
    /\ Len(bookings) < MaxBookings
    /\ LET err == validate(data, 0)
           row == BookingSerializer_create(data, auth)
       IN  IF ~(BookingRequired \subseteq DOMAIN data)
           THEN /\ response' = Response("create", 400, "This field is required")
                /\ UNCHANGED bookings
           ELSE IF BookingFieldErrors(data) # "ok"
           THEN /\ response' = Response("create", 400, BookingFieldErrors(data))
                /\ UNCHANGED bookings
           ELSE IF err # "ok"
           THEN /\ response' = Response("create", 400, err)
                /\ UNCHANGED bookings
           ELSE IF UserDoesNotExist(data) \/ ~BookingRowAccepted(row)
           THEN /\ response' = Response("create", 500, "unhandled exception")
                /\ UNCHANGED bookings
           ELSE /\ bookings' = Append(bookings, row)
                /\ response' = Response("create", 201, "created")
    /\ UNCHANGED <<listings, reviews, inflight>>

\* the processes that serve requests at the same time
Workers == {1, 2}

\* inflight of a worker that holds no request
Idle == [pc |-> "idle"]

\* the requests that passed is_valid and are not saved yet
Validated == {w \in Workers : inflight[w] # Idle}

\* the first step of POST /bookings/ in worker w, CreateModelMixin.create up to
\* serializer.is_valid(raise_exception=True): the validation reads the
\* bookings as they are now
BookingViewSet_create_is_valid(w, data, auth) ==
    /\ inflight[w] = Idle
    /\ Len(bookings) + Cardinality(Validated) < MaxBookings
    /\ IF ~(BookingRequired \subseteq DOMAIN data)
       THEN /\ response' = Response("create", 400, "This field is required")
            /\ UNCHANGED inflight
       ELSE IF BookingFieldErrors(data) # "ok"
       THEN /\ response' = Response("create", 400, BookingFieldErrors(data))
            /\ UNCHANGED inflight
       ELSE IF validate(data, 0) # "ok"
       THEN /\ response' = Response("create", 400, validate(data, 0))
            /\ UNCHANGED inflight
       ELSE /\ inflight' = [inflight EXCEPT ![w] =
                               [pc |-> "perform_create", data |-> data, auth |-> auth]]
            /\ UNCHANGED response
    /\ UNCHANGED <<listings, bookings, reviews>>

\* the second step in worker w: perform_create, serializer.save, the insert
BookingViewSet_perform_create(w) ==
    /\ inflight[w] # Idle
    /\ LET data == inflight[w].data
           row == BookingSerializer_create(data, inflight[w].auth)
       IN  IF UserDoesNotExist(data) \/ ~BookingRowAccepted(row)
           THEN /\ response' = Response("create", 500, "unhandled exception")
                /\ UNCHANGED bookings
           ELSE /\ bookings' = Append(bookings, row)
                /\ response' = Response("create", 201, "created")
    /\ inflight' = [inflight EXCEPT ![w] = Idle]
    /\ UNCHANGED <<listings, reviews>>

\* UpdateModelMixin.update; op names the verb, and partial_update is update
\* with the serializer's partial flag, which waives the required fields
UpdateBooking(op, id, data) ==
    /\ IF id \notin 1..Len(bookings)
       THEN /\ response' = Response(op, 404, "not found")
            /\ UNCHANGED bookings
       ELSE LET err == validate(data, id)
                row == BookingSerializer_update(bookings[id], data)
            IN  IF op # "partial_update" /\ ~(BookingRequired \subseteq DOMAIN data)
                THEN /\ response' = Response(op, 400, "This field is required")
                     /\ UNCHANGED bookings
                ELSE IF BookingFieldErrors(data) # "ok"
                THEN /\ response' = Response(op, 400, BookingFieldErrors(data))
                     /\ UNCHANGED bookings
                ELSE IF err # "ok"
                THEN /\ response' = Response(op, 400, err)
                     /\ UNCHANGED bookings
                ELSE IF ~BookingRowAccepted(row)
                THEN /\ response' = Response(op, 500, "unhandled exception")
                     /\ UNCHANGED bookings
                ELSE /\ bookings' = [bookings EXCEPT ![id] = row]
                     /\ response' = Response(op, 200, "updated")
    /\ UNCHANGED <<listings, reviews, inflight>>

\* PUT /bookings/{id}/
BookingViewSet_update(id, data) == UpdateBooking("update", id, data)

\* PATCH /bookings/{id}/
BookingViewSet_partial_update(id, data) == UpdateBooking("partial_update", id, data)

\* update_status without the test of new_status: whatever status the body
\* carries is saved
update_status_unchecked(id, data) ==
    /\ IF id \notin 1..Len(bookings)
       THEN /\ response' = Response("update_status", 404, "not found")
            /\ UNCHANGED bookings
       ELSE IF ~Has(data, "status")
       THEN /\ response' = Response("update_status", 400, "Invalid status")
            /\ UNCHANGED bookings
       ELSE /\ bookings' = [bookings EXCEPT ![id].status = data["status"]]
            /\ response' = Response("update_status", 200, "updated")
    /\ UNCHANGED <<listings, reviews, inflight>>

\* PATCH /bookings/{id}/update_status/
update_status(id, data) ==
    /\ IF id \notin 1..Len(bookings)
       THEN /\ response' = Response("update_status", 404, "not found")
            /\ UNCHANGED bookings
       ELSE IF ~Has(data, "status") \/ data["status"] \notin
                    {"pending", "confirmed", "cancelled", "completed"}
       THEN /\ response' = Response("update_status", 400, "Invalid status")
            /\ UNCHANGED bookings
       ELSE /\ bookings' = [bookings EXCEPT ![id].status = data["status"]]
            /\ response' = Response("update_status", 200, "updated")
    /\ UNCHANGED <<listings, reviews, inflight>>

\* cancel without the test for a completed booking
cancel_unguarded(id) ==
    /\ IF id \notin 1..Len(bookings)
       THEN /\ response' = Response("cancel", 404, "not found")
            /\ UNCHANGED bookings
       ELSE IF bookings[id].status = "cancelled"
       THEN /\ response' = Response("cancel", 400, "Booking is already cancelled")
            /\ UNCHANGED bookings
       ELSE /\ bookings' = [bookings EXCEPT ![id].status = "cancelled"]
            /\ response' = Response("cancel", 200, "updated")
    /\ UNCHANGED <<listings, reviews, inflight>>

\* POST /bookings/{id}/cancel/
cancel(id) ==
    /\ IF id \notin 1..Len(bookings)
       THEN /\ response' = Response("cancel", 404, "not found")
            /\ UNCHANGED bookings
       ELSE IF bookings[id].status = "completed"
       THEN /\ response' = Response("cancel", 400, "Cannot cancel a completed booking")
            /\ UNCHANGED bookings
       ELSE IF bookings[id].status = "cancelled"
       THEN /\ response' = Response("cancel", 400, "Booking is already cancelled")
            /\ UNCHANGED bookings
       ELSE /\ bookings' = [bookings EXCEPT ![id].status = "cancelled"]
            /\ response' = Response("cancel", 200, "updated")
    /\ UNCHANGED <<listings, reviews, inflight>>

(***************************************************************************)
(* views.py, serializers.py: ListingViewSet, ListingSerializer             *)
(***************************************************************************)
\* validate_price_per_night, validate_max_guests: "ok" or the ValidationError
ListingSerializer_validate(data) ==
    IF Has(data, "price_per_night") /\ data["price_per_night"] <= 0
    THEN "Price per night must be positive"
    ELSE IF Has(data, "max_guests") /\ data["max_guests"] <= 0
    THEN "Max guests must be at least 1"
    ELSE IF Has(data, "max_guests") /\ data["max_guests"] > 20
    THEN "Max guests cannot exceed 20"
    ELSE "ok"

\* ModelSerializer.update as ListingSerializer inherits it
ListingSerializer_update(l, data) ==
    [host |-> l.host,
     price_per_night |-> IF Has(data, "price_per_night")
                         THEN data["price_per_night"] ELSE l.price_per_night,
     max_guests |-> IF Has(data, "max_guests") THEN data["max_guests"] ELSE l.max_guests,
     available |-> IF Has(data, "available") THEN data["available"] ELSE l.available]

\* PATCH /listings/{id}/
ListingViewSet_partial_update(id, data) ==
    /\ IF id \notin DOMAIN listings
       THEN /\ response' = Response("listing_partial_update", 404, "not found")
            /\ UNCHANGED listings
       ELSE IF ListingSerializer_validate(data) # "ok"
       THEN /\ response' = Response("listing_partial_update", 400,
                                    ListingSerializer_validate(data))
            /\ UNCHANGED listings
       ELSE /\ listings' = [listings EXCEPT ![id] = ListingSerializer_update(@, data)]
            /\ response' = Response("listing_partial_update", 200, "updated")
    /\ UNCHANGED <<bookings, reviews, inflight>>

(***************************************************************************)
(* models.py, serializers.py, views.py: Review, ReviewSerializer,          *)
(* ReviewViewSet                                                           *)
(***************************************************************************)
\* Review.booking of a review with no booking (null)
NoBooking == 0

\* the serializer fields a create or a full update of a review must carry
\* (comment, which no rule reads, is left out of the rows)
ReviewRequired == {"listing_id", "rating"}

\* ReviewSerializer.validate_rating: "ok" or the ValidationError
validate_rating(data) ==
    IF Has(data, "rating") /\ ~(1 <= data["rating"] /\ data["rating"] <= 5)
    THEN "Rating must be between 1 and 5"
    ELSE "ok"

\* unique_user_listing_review dropped from the table
no_unique_user_listing_review(rs, id, row) == TRUE

\* Review.Meta.constraints: unique_user_listing_review, for the row of primary
\* key id (0: a new row) in the table rs
unique_user_listing_review(rs, id, row) ==
    \A j \in 1..Len(rs) :
        j # id => ~(rs[j].listing = row.listing /\ rs[j].user = row.user)

\* Review.booking is a OneToOneField: unique when not null
unique_booking(rs, id, row) ==
    row.booking = NoBooking \/ \A j \in 1..Len(rs) : j # id => rs[j].booking # row.booking

\* the insert or update of a reviews row: NOT NULL and foreign keys, and the
\* two unique constraints; a violation is an IntegrityError
ReviewRowAccepted(bs, rs, id, row) ==
    /\ row.user \in Users
    /\ row.listing \in DOMAIN listings
    /\ row.booking = NoBooking \/ row.booking \in 1..Len(bs)
    /\ unique_user_listing_review(rs, id, row)
    /\ unique_booking(rs, id, row)

\* the IntegrityError a refused reviews row raises
ReviewIntegrityError(rs, id, row) ==
    IF row.user \notin Users THEN "IntegrityError: user_id"
    ELSE IF row.listing \notin DOMAIN listings THEN "IntegrityError: listing_id"
    ELSE IF ~unique_user_listing_review(rs, id, row)
    THEN "IntegrityError: unique_user_listing_review"
    ELSE "IntegrityError: booking_id"

\* Review.clean: "ok" or the ValidationError
Review_clean(row) ==
    IF row.booking # NoBooking /\ bookings[row.booking].status # "completed"
    THEN "Can only review completed bookings"
    ELSE IF row.booking # NoBooking /\ bookings[row.booking].listing # row.listing
    THEN "Booking must be for the same listing being reviewed"
    ELSE "ok"

\* ReviewSerializer.create: the row handed to Review.objects.create; booking is
\* no field of the serializer, so a booking in the body is dropped
ReviewSerializer_create(data, auth) ==
    [listing |-> data["listing_id"],
     user |-> ResolvedUser(data, auth),
     booking |-> NoBooking,
     rating |-> data["rating"]]

\* ModelSerializer.update as ReviewSerializer inherits it
ReviewSerializer_update(r, data) ==
    [listing |-> IF Has(data, "listing_id") THEN data["listing_id"] ELSE r.listing,
     user |-> IF Has(data, "user_id") THEN data["user_id"] ELSE r.user,
     booking |-> r.booking,
     rating |-> IF Has(data, "rating") THEN data["rating"] ELSE r.rating]

\* POST /reviews/: is_valid, perform_create, serializer.save
ReviewViewSet_create(data, auth) ==
    /\ Len(reviews) < MaxReviews
    /\ LET row == ReviewSerializer_create(data, auth)
       IN  IF ~(ReviewRequired \subseteq DOMAIN data)
           THEN /\ response' = Response("review_create", 400, "This field is required")
                /\ UNCHANGED reviews
           ELSE IF validate_rating(data) # "ok"
           THEN /\ response' = Response("review_create", 400, validate_rating(data))
                /\ UNCHANGED reviews
           ELSE IF data["listing_id"] \notin DOMAIN listings
           THEN /\ response' = Response("review_create", 500, "Listing.DoesNotExist")
                /\ UNCHANGED reviews
           ELSE IF UserDoesNotExist(data)
           THEN /\ response' = Response("review_create", 500, "User.DoesNotExist")
                /\ UNCHANGED reviews
           ELSE IF ~ReviewRowAccepted(bookings, reviews, 0, row)
           THEN /\ response' = Response("review_create", 500,
                                        ReviewIntegrityError(reviews, 0, row))
                /\ UNCHANGED reviews
           ELSE /\ reviews' = Append(reviews, row)
                /\ response' = Response("review_create", 201, "created")
    /\ UNCHANGED <<listings, bookings, inflight>>

\* UpdateModelMixin.update of a review; op names the verb
UpdateReview(op, id, data) ==
    /\ IF id \notin 1..Len(reviews)
       THEN /\ response' = Response(op, 404, "not found")
            /\ UNCHANGED reviews
       ELSE LET row == ReviewSerializer_update(reviews[id], data)
            IN  IF op # "review_partial_update" /\ ~(ReviewRequired \subseteq DOMAIN data)
                THEN /\ response' = Response(op, 400, "This field is required")
                     /\ UNCHANGED reviews
                ELSE IF validate_rating(data) # "ok"
                THEN /\ response' = Response(op, 400, validate_rating(data))
                     /\ UNCHANGED reviews
                ELSE IF ~ReviewRowAccepted(bookings, reviews, id, row)
                THEN /\ response' = Response(op, 500,
                                             ReviewIntegrityError(reviews, id, row))
                     /\ UNCHANGED reviews
                ELSE /\ reviews' = [reviews EXCEPT ![id] = row]
                     /\ response' = Response(op, 200, "updated")
    /\ UNCHANGED <<listings, bookings, inflight>>

\* PUT /reviews/{id}/
ReviewViewSet_update(id, data) == UpdateReview("review_update", id, data)

\* PATCH /reviews/{id}/
ReviewViewSet_partial_update(id, data) == UpdateReview("review_partial_update", id, data)

(***************************************************************************)
(* admin.py: ReviewAdmin                                                   *)
(***************************************************************************)
\* the add form of the admin site: the model form's full_clean (the field
\* validators, Review.clean, then the unique checks, those of the constraints
\* included as Django validates them since 4.1), then save; an invalid form is
\* shown again (200), a saved one redirects (302)
ReviewAdmin_add(row) ==
    /\ Len(reviews) < MaxReviews
    /\ row.booking = NoBooking \/ row.booking \in 1..Len(bookings)
    /\ LET err == IF ~(1 <= row.rating /\ row.rating <= 5)
                  THEN "Ensure this value is between 1 and 5"
                  ELSE IF Review_clean(row) # "ok" THEN Review_clean(row)
                  ELSE IF ~unique_booking(reviews, 0, row)
                  THEN "Review with this Booking already exists"
                  ELSE IF ~unique_user_listing_review(reviews, 0, row)
                  THEN "Constraint unique_user_listing_review is violated"
                  ELSE "ok"
       IN  IF err # "ok"
           THEN /\ response' = Response("admin_review_add", 200, err)
                /\ UNCHANGED reviews
           ELSE /\ reviews' = Append(reviews, row)
                /\ response' = Response("admin_review_add", 302, "added")
    /\ UNCHANGED <<listings, bookings, inflight>>

(***************************************************************************)
(* management/commands/seed.py: Command                                    *)
(*                                                                         *)
(* The users and listings of a run are the rows of the two tables; every   *)
(* random draw of the command is an argument of the action.                *)
(***************************************************************************)
Min(a, b) == IF a < b THEN a ELSE b

\* the try/except around Review.objects.create, row after row: a row the
\* database refuses is skipped
RECURSIVE InsertReviews(_, _, _)
InsertReviews(bs, rs, rows) ==
    IF rows = <<>> THEN rs
    ELSE InsertReviews(bs,
                       IF ReviewRowAccepted(bs, rs, 0, Head(rows))
                       THEN Append(rs, Head(rows)) ELSE rs,
                       Tail(rows))

\* Command.create_bookings: one row per draw (listing, user, status), on the
\* available listings, for a guest who is not the host
create_bookings(draws) ==
    [i \in 1..Len(draws) |->
        [listing |-> draws[i].listing,
         user |-> draws[i].user,
         check_in_date |-> 0,
         check_out_date |-> 1,
         number_of_guests |-> 1,
         total_price |-> listings[draws[i].listing].price_per_night * 1,
         status |-> draws[i].status]]

\* Command.create_reviews over the bookings the run created (their primary
\* keys, created), in the table bs: the table of reviews afterwards
create_reviews(bs, rs, created, count, picks) ==
    LET completed == SelectSeq(created, LAMBDA i : bs[i].status = "completed")
        completed_bookings == IF completed # <<>> THEN completed
                              ELSE SubSeq(created, 1, Min(count, Len(created)))
        linked == SubSeq(completed_bookings, 1, Min(count, Len(completed_bookings)))
        rows == [k \in 1..Len(linked) |->
                    [listing |-> bs[linked[k]].listing,
                     user |-> bs[linked[k]].user,
                     booking |-> linked[k],
                     rating |-> 5]]
        rs1 == InsertReviews(bs, rs, rows)
        remaining_count == count - (Len(rs1) - Len(rs))
        extra == [k \in 1..remaining_count |->
                    [listing |-> picks[k].listing,
                     user |-> picks[k].user,
                     booking |-> NoBooking,
                     rating |-> 5]]
    IN  InsertReviews(bs, rs1, extra)

\* Command.handle without --clear
handle(draws, count, picks) ==
    /\ Len(bookings) + Len(draws) <= MaxBookings
    /\ Len(reviews) + count <= MaxReviews
    /\ \A i \in 1..Len(draws) :
          /\ listings[draws[i].listing].available
          /\ draws[i].user # listings[draws[i].listing].host
    /\ \A k \in 1..Len(picks) : picks[k].user # listings[picks[k].listing].host
    /\ LET bs == bookings \o create_bookings(draws)
           created == [i \in 1..Len(draws) |-> Len(bookings) + i]
       IN  /\ bookings' = bs
           /\ reviews' = create_reviews(bs, reviews, created, count, picks)
    /\ response' = Response("seed", 0, "seeded")
    /\ UNCHANGED <<listings, inflight>>

(***************************************************************************)
(* The booking service: two listings, requests about dates, listings and   *)
(* statuses                                                                *)
(***************************************************************************)
ListingIds == {1, 2}

\* the listing ids a request may name: those that exist and one that does not
ListingIdInputs == {1, 2, 3}

BookingIdInputs == 1..MaxBookings

CreateRequests ==
    Req(Req(Req(Req({EmptyBody}, "listing_id", ListingIdInputs),
                "check_in_date", Days), "check_out_date", Days),
        "total_price", {100})

PatchRequests ==
    Opt(Opt(Opt({EmptyBody}, "listing_id", ListingIds),
            "check_in_date", Days), "check_out_date", Days)

StatusRequests == Opt({EmptyBody}, "status", BOOKING_STATUS \cup {"archived"})

Init ==
    /\ listings = [l \in ListingIds |->
                     [host |-> 3, price_per_night |-> 100, max_guests |-> 2,
                      available |-> TRUE]]
    /\ bookings = <<>>
    /\ reviews = <<>>
    /\ response = Response("none", 0, "none")
    /\ inflight = [w \in Workers |-> Idle]

Next ==
    \/ \E data \in CreateRequests \cup {EmptyBody} : BookingViewSet_create(data, 1)
    \/ \E id \in BookingIdInputs, data \in CreateRequests \cup {EmptyBody} :
          BookingViewSet_update(id, data)
    \/ \E id \in BookingIdInputs, data \in PatchRequests :
          BookingViewSet_partial_update(id, data)
    \/ \E id \in BookingIdInputs, data \in StatusRequests : update_status(id, data)
    \/ \E id \in BookingIdInputs : cancel(id)

Spec == Init /\ [][Next]_vars

(***************************************************************************)
(* The booking service, prices: listings of two prices, requests about     *)
(* nights, listings, the total_price field and the price of a listing      *)
(***************************************************************************)
PriceInputs == {0, 100, 150}

PriceCreateRequests ==
    Req(Req(Req(Req({EmptyBody}, "listing_id", ListingIds),
                "check_in_date", {0}), "check_out_date", Days),
        "total_price", PriceInputs \ {150})

PricePatchRequests ==
    Opt(Opt(Opt({EmptyBody}, "listing_id", ListingIds),
            "check_out_date", Days \ {0}),
        "total_price", {0})

ListingPriceRequests == Req({EmptyBody}, "price_per_night", PriceInputs)

InitPrice ==
    /\ listings = [l \in ListingIds |->
                     [host |-> 3, price_per_night |-> IF l = 1 THEN 100 ELSE 150,
                      max_guests |-> 2, available |-> TRUE]]
    /\ bookings = <<>>
    /\ reviews = <<>>
    /\ response = Response("none", 0, "none")
    /\ inflight = [w \in Workers |-> Idle]

NextPrice ==
    \/ \E data \in PriceCreateRequests : BookingViewSet_create(data, 1)
    \/ \E id \in BookingIdInputs, data \in PriceCreateRequests :
          BookingViewSet_update(id, data)
    \/ \E id \in BookingIdInputs, data \in PricePatchRequests :
          BookingViewSet_partial_update(id, data)
    \/ \E id \in ListingIds, data \in ListingPriceRequests :
          ListingViewSet_partial_update(id, data)

SpecPrice == InitPrice /\ [][NextPrice]_vars

(***************************************************************************)
(* The review service: seeded bookings, status changes, and reviews from   *)
(* the API, the admin site and the seed command                            *)
(***************************************************************************)
Guests == {1, 2}

ReviewCreateRequests ==
    Opt(Req(Req({EmptyBody}, "listing_id", ListingIdInputs), "rating", {5, 6}),
        "booking", {1})

ReviewPutRequests ==
    Opt(Req(Req({EmptyBody}, "listing_id", ListingIds), "rating", {5}),
        "user_id", Guests)

ReviewPatchRequests ==
    Opt(Opt({EmptyBody}, "listing_id", ListingIds), "user_id", Guests)

ReviewForms ==
    [listing : ListingIds, user : Guests, booking : {NoBooking} \cup BookingIdInputs,
     rating : {5}]

SeedBookingDraws == [listing : ListingIds, user : {1}, status : {"pending", "completed"}]

SeedReviewPicks == [listing : ListingIds, user : Guests]

SeqsUpTo(S, n) == UNION {[1..k -> S] : k \in 0..n}

ReviewStatusRequests == Req({EmptyBody}, "status", {"pending", "completed"})

NextReview ==
    \/ \E draws \in SeqsUpTo(SeedBookingDraws, MaxBookings - Len(bookings)),
          count \in 0..(MaxReviews - Len(reviews)) :
          \E picks \in [1..count -> SeedReviewPicks] : handle(draws, count, picks)
    \/ \E data \in ReviewCreateRequests, auth \in {Anonymous} \cup Guests :
          ReviewViewSet_create(data, auth)
    \/ \E id \in 1..Len(reviews), data \in ReviewPutRequests :
          ReviewViewSet_update(id, data)
    \/ \E id \in 1..Len(reviews), data \in ReviewPatchRequests :
          ReviewViewSet_partial_update(id, data)
    \/ \E row \in ReviewForms : ReviewAdmin_add(row)
    \/ \E id \in 1..Len(bookings), data \in ReviewStatusRequests :
          update_status(id, data)

SpecReview == Init /\ [][NextReview]_vars

(***************************************************************************)
(* The booking service, guests and flags: listings of two sizes, requests  *)
(* about guests, statuses and listings, and updates of max_guests and      *)
(* available                                                               *)
(***************************************************************************)
GuestInputs == {0, 2}

StatusInputs == {"confirmed", "archived"}

GuestCreateRequests ==
    Opt(Opt(Req(Req(Req(Req({EmptyBody}, "listing_id", ListingIdInputs),
                        "check_in_date", {0}), "check_out_date", {0, 1}),
                "total_price", {100}),
            "number_of_guests", GuestInputs),
        "status", StatusInputs)

GuestPatchRequests ==
    Opt(Opt(Opt({EmptyBody}, "listing_id", ListingIds),
            "number_of_guests", GuestInputs),
        "status", StatusInputs)

ListingGuestRequests ==
    Opt(Opt({EmptyBody}, "max_guests", {1, 2}), "available", BOOLEAN)

InitGuests ==
    /\ listings = [l \in ListingIds |->
                     [host |-> 3, price_per_night |-> 100,
                      max_guests |-> IF l = 1 THEN 2 ELSE 1, available |-> TRUE]]
    /\ bookings = <<>>
    /\ reviews = <<>>
    /\ response = Response("none", 0, "none")
    /\ inflight = [w \in Workers |-> Idle]

NextGuests ==
    \/ \E data \in GuestCreateRequests : BookingViewSet_create(data, 1)
    \/ \E id \in BookingIdInputs, data \in GuestCreateRequests :
          BookingViewSet_update(id, data)
    \/ \E id \in BookingIdInputs, data \in GuestPatchRequests :
          BookingViewSet_partial_update(id, data)
    \/ \E id \in BookingIdInputs, data \in StatusRequests : update_status(id, data)
    \/ \E id \in ListingIds, data \in ListingGuestRequests :
          ListingViewSet_partial_update(id, data)

SpecGuests == InitGuests /\ [][NextGuests]_vars

(***************************************************************************)
(* The booking service under two workers: creates whose validation and     *)
(* insert are separate steps, interleaved with those of the other worker   *)
(***************************************************************************)
ConcurrentCreateRequests ==
    Req(Req(Req(Req({EmptyBody}, "listing_id", ListingIds),
                "check_in_date", Days), "check_out_date", Days),
        "total_price", {100})

NextConcurrent ==
    \/ \E w \in Workers, data \in ConcurrentCreateRequests :
          BookingViewSet_create_is_valid(w, data, 1)
    \/ \E w \in Workers : BookingViewSet_perform_create(w)

SpecConcurrent == Init /\ [][NextConcurrent]_vars

(***************************************************************************)
(* Properties of the booking validator                                     *)
(***************************************************************************)
Active(b) == b.status \in {"pending", "confirmed"}

\* the overlap of the half-open ranges of two bookings
RangesOverlap(b1, b2) ==
    b1.check_in_date < b2.check_out_date /\ b1.check_out_date > b2.check_in_date

\* some pending or confirmed booking other than number id, on the listing of
\* row, overlaps the range of row
OverlapsAnother(bs, id, row) ==
    \E j \in 1..Len(bs) :
        /\ j # id
        /\ bs[j].listing = row.listing
        /\ Active(bs[j])
        /\ RangesOverlap(bs[j], row)

\* C1: in every reachable state no two distinct pending or confirmed bookings
\* of the same listing have overlapping date ranges.
C1_NoActiveOverlap ==
    \A i, j \in 1..Len(bookings) :
        (/\ i # j
         /\ bookings[i].listing = bookings[j].listing
         /\ Active(bookings[i])
         /\ Active(bookings[j]))
        => ~RangesOverlap(bookings[i], bookings[j])

\* a create request with valid dates and guest count on an available listing
ValidCreate(data) ==
    /\ data["check_in_date"] < data["check_out_date"]
    /\ data["listing_id"] \in DOMAIN listings
    /\ listings[data["listing_id"]].available
    /\ (IF Has(data, "number_of_guests") THEN data["number_of_guests"] ELSE 1)
           \in 1..listings[data["listing_id"]].max_guests

\* the row a create request proposes, as far as the conflict check reads it
Proposed(data) ==
    [listing |-> data["listing_id"],
     check_in_date |-> data["check_in_date"],
     check_out_date |-> data["check_out_date"]]

\* C2: a create with valid dates and guest count on an available listing is
\* rejected (400, nothing stored) if and only if a pending or confirmed booking
\* of that listing has check_in < new check_out and check_out > new check_in;
\* otherwise it is stored, so back-to-back ranges and cancelled or completed
\* bookings never cause a rejection.
C2_CreateRejectedIffOverlap ==
    [][(response'.op = "create") =>
        \A data \in CreateRequests :
            (BookingViewSet_create(data, 1) /\ ValidCreate(data)) =>
                IF OverlapsAnother(bookings, 0, Proposed(data))
                THEN /\ response'.code = 400
                     /\ response'.detail = "These dates are not available"
                     /\ bookings' = bookings
                ELSE /\ response'.code = 201
                     /\ Len(bookings') = Len(bookings) + 1]_vars

\* the last request was a create that stored a booking back to back with a
\* pending or confirmed booking of the same listing
C2_Witness ==
    /\ response.op = "create"
    /\ response.code = 201
    /\ Len(bookings) = 2
    /\ bookings[1].listing = bookings[2].listing
    /\ Active(bookings[1])
    /\ bookings[2].check_in_date = bookings[1].check_out_date

UpdateRequests == CreateRequests \cup PatchRequests

\* C3: a full or partial update is rejected whenever the resulting date range
\* of the booking overlaps another pending or confirmed booking of its listing.
C3_UpdateRejectedOnOverlap ==
    [][(response'.op \in {"update", "partial_update"}) =>
        \A id \in 1..Len(bookings), data \in UpdateRequests :
            (/\ UpdateBooking(response'.op, id, data)
             /\ OverlapsAnother(bookings, id,
                                 BookingSerializer_update(bookings[id], data)))
            => (response'.code = 400 /\ bookings' = bookings)]_vars

\* C4: an update is not rejected as a date conflict when the resulting range
\* overlaps no pending or confirmed booking other than the updated one.
C4_SelfExcluded ==
    [][(/\ response'.op \in {"update", "partial_update"}
        /\ response'.detail = "These dates are not available") =>
        \A id \in 1..Len(bookings), data \in UpdateRequests :
            UpdateBooking(response'.op, id, data) =>
                OverlapsAnother(bookings, id,
                                BookingSerializer_update(bookings[id], data))]_vars

\* the only booking, pending or confirmed, was updated with its listing and
\* the whole calendar as its range, which overlaps whatever range it had
C4_Witness ==
    /\ response.op = "update"
    /\ response.code = 200
    /\ Len(bookings) = 1
    /\ Active(bookings[1])
    /\ bookings[1].check_in_date = 0
    /\ bookings[1].check_out_date = MaxDay

(***************************************************************************)
(* Properties of total_price                                               *)
(***************************************************************************)
\* price_per_night of the booking's listing times its nights
PriceOfStay(b) ==
    listings[b.listing].price_per_night * (b.check_out_date - b.check_in_date)

\* C5: a booking that a create request has just stored has total_price equal
\* to the price per night of its listing times its nights, whatever total_price
\* the request carried.
C5_CreatedTotalPrice ==
    (response.op = "create" /\ response.code = 201) =>
        bookings[Len(bookings)].total_price = PriceOfStay(bookings[Len(bookings)])

\* a create has just stored a booking whose total_price is none of the values
\* a request carries
C5_Witness ==
    /\ response.op = "create"
    /\ response.code = 201
    /\ bookings[Len(bookings)].total_price = 300
    /\ bookings[Len(bookings)].total_price \notin PriceInputs

\* C6: in every reachable state every stored booking has total_price equal to
\* the price per night of its listing times its nights.
C6_TotalPriceInvariant ==
    \A i \in 1..Len(bookings) : bookings[i].total_price = PriceOfStay(bookings[i])

(***************************************************************************)
(* Properties of reviews                                                   *)
(***************************************************************************)
\* C7: in every reachable state no two distinct reviews have the same listing
\* and the same user.
C7_OneReviewPerListingAndUser ==
    \A i, j \in 1..Len(reviews) :
        i # j => ~(reviews[i].listing = reviews[j].listing
                   /\ reviews[i].user = reviews[j].user)

\* a second review of a listing by the user who already reviewed it was just
\* refused by the constraint
C7_Witness ==
    /\ response.op = "review_create"
    /\ response.detail = "IntegrityError: unique_user_listing_review"
    /\ Len(reviews) >= 1

\* C8: in every reachable state every review that is linked to a booking is
\* linked to a completed booking.
C8_LinkedBookingCompleted ==
    \A k \in 1..Len(reviews) :
        reviews[k].booking # NoBooking =>
            bookings[reviews[k].booking].status = "completed"

\* the booking a review request or row attaches may be reviewed for listing l
Reviewable(bs, b, l) == bs[b].status = "completed" /\ bs[b].listing = l

\* C9: a review creation that attaches a booking is rejected if the booking is
\* not completed or is a booking of another listing: no review row is stored
\* with such a booking, and a POST /reviews/ that names such a booking is
\* answered 400 and stores nothing.
C9_AttachRejected ==
    [][/\ \A k \in (Len(reviews) + 1)..Len(reviews') :
             reviews'[k].booking # NoBooking =>
                 Reviewable(bookings', reviews'[k].booking, reviews'[k].listing)
       /\ (response'.op = "review_create") =>
             \A data \in ReviewCreateRequests, auth \in {Anonymous} \cup Guests :
                 (/\ ReviewViewSet_create(data, auth)
                  /\ Has(data, "booking")
                  /\ data["booking"] \in 1..Len(bookings)
                  /\ ~Reviewable(bookings, data["booking"], data["listing_id"]))
                 => (response'.code = 400 /\ reviews' = reviews)]_vars

\* C10: creating a review for a listing and user that already have one ends in
\* a validation error (400 or 409) and leaves the reviews unchanged.
C10_DuplicateReviewIsValidationError ==
    [][(response'.op = "review_create") =>
        \A data \in ReviewCreateRequests, auth \in {Anonymous} \cup Guests :
            (/\ ReviewViewSet_create(data, auth)
             /\ \E j \in 1..Len(reviews) :
                   /\ reviews[j].listing = data["listing_id"]
                   /\ reviews[j].user = ResolvedUser(data, auth))
            => (response'.code \in {400, 409} /\ reviews' = reviews)]_vars

(***************************************************************************)
(* Properties of the guest count                                           *)
(***************************************************************************)
\* C11: in every reachable state every stored booking has number_of_guests at
\* most the max_guests of its listing.
C11_GuestsWithinMax ==
    \A i \in 1..Len(bookings) :
        bookings[i].number_of_guests <= listings[bookings[i].listing].max_guests

\* number_of_guests of a create request
GuestsOf(data) == IF Has(data, "number_of_guests") THEN data["number_of_guests"] ELSE 1

\* guests is more than the listing of that id allows
ExceedsMax(listing_id, guests) ==
    listing_id \in DOMAIN listings /\ guests > listings[listing_id].max_guests

GuestUpdateRequests == GuestCreateRequests \cup GuestPatchRequests

\* C12: a create, full update or partial update of a booking whose resulting
\* number_of_guests exceeds the max_guests of its resulting listing is answered
\* 400 and stores nothing, whichever of the two fields the request carries.
C12_WriteRejectedOverMax ==
    [][/\ (response'.op = "create") =>
             \A data \in GuestCreateRequests :
                 (/\ BookingViewSet_create(data, 1)
                  /\ ExceedsMax(data["listing_id"], GuestsOf(data)))
                 => (response'.code = 400 /\ bookings' = bookings)
       /\ (response'.op \in {"update", "partial_update"}) =>
             \A id \in 1..Len(bookings), data \in GuestUpdateRequests :
                 (/\ UpdateBooking(response'.op, id, data)
                  /\ LET row == BookingSerializer_update(bookings[id], data)
                     IN  ExceedsMax(row.listing, row.number_of_guests))
                 => (response'.code = 400 /\ bookings' = bookings)]_vars

(***************************************************************************)
(* Properties of the dates                                                 *)
(***************************************************************************)
\* C13: in every reachable state every stored booking has check_in_date
\* strictly before check_out_date.
C13_CheckInBeforeCheckOut ==
    \A i \in 1..Len(bookings) : bookings[i].check_in_date < bookings[i].check_out_date

\* a partial update that the validator let through was refused by the table,
\* and every stored booking has at least one night
C13_Witness ==
    /\ response.op = "partial_update"
    /\ response.code = 500
    /\ Len(bookings) >= 1
    /\ \A i \in 1..Len(bookings) : bookings[i].check_in_date < bookings[i].check_out_date

\* C14: a create or update of a booking whose resulting check_out_date is not
\* after its resulting check_in_date is answered 400 and leaves the bookings
\* unchanged, also when a partial update carries only one of the two dates.
C14_InvalidDatesAre400 ==
    [][/\ (response'.op = "create") =>
             \A data \in CreateRequests :
                 (/\ BookingViewSet_create(data, 1)
                  /\ data["check_out_date"] <= data["check_in_date"])
                 => (response'.code = 400 /\ bookings' = bookings)
       /\ (response'.op \in {"update", "partial_update"}) =>
             \A id \in 1..Len(bookings), data \in UpdateRequests :
                 (/\ UpdateBooking(response'.op, id, data)
                  /\ LET row == BookingSerializer_update(bookings[id], data)
                     IN  row.check_out_date <= row.check_in_date)
                 => (response'.code = 400 /\ bookings' = bookings)]_vars

(***************************************************************************)
(* Properties of the status and of refused creates                         *)
(***************************************************************************)
\* C15: the status of every stored booking is one of pending, confirmed,
\* cancelled, completed after every step, and an update_status request with
\* another value or with no value is answered 400 and changes no booking.
C15_StatusInEnum ==
    [][/\ \A i \in 1..Len(bookings') :
             bookings'[i].status \in {"pending", "confirmed", "cancelled", "completed"}
       /\ (response'.op = "update_status") =>
             \A id \in 1..Len(bookings), data \in StatusRequests :
                 (/\ update_status(id, data)
                  /\ \/ ~Has(data, "status")
                     \/ data["status"] \notin
                            {"pending", "confirmed", "cancelled", "completed"})
                 => (response'.code = 400 /\ bookings' = bookings)]_vars

\* an update_status request on a stored booking was just refused
C15_Witness ==
    /\ response.op = "update_status"
    /\ response.code = 400
    /\ Len(bookings) >= 1

\* C16: a create that the validator refuses (invalid dates, too many guests,
\* unavailable or unknown listing, date conflict) leaves the bookings exactly
\* as they were.
C16_RejectedCreateStoresNothing ==
    [][(response'.op = "create") =>
        \A data \in GuestCreateRequests :
            (BookingViewSet_create(data, 1) /\ validate(data, 0) # "ok")
            => (response'.code = 400 /\ bookings' = bookings)]_vars

\* a create on a listing that is not available was just refused, with a
\* booking already stored
C16_Witness ==
    /\ response.op = "create"
    /\ response.code = 400
    /\ response.detail = "This listing is not available for booking"
    /\ Len(bookings) >= 1

(***************************************************************************)
(* Properties of unknown listings, of the two computed values, of cancel   *)
(* and of reactivation                                                     *)
(***************************************************************************)
\* C17: a create of a booking or of a review whose listing_id is the id of no
\* listing is answered 400 or 404, never with an unhandled exception, and
\* stores nothing.
C17_UnknownListingIsClientError ==
    [][/\ (response'.op = "create") =>
             \A data \in CreateRequests :
                 (/\ BookingViewSet_create(data, 1)
                  /\ data["listing_id"] \notin DOMAIN listings)
                 => (response'.code \in {400, 404} /\ bookings' = bookings)
       /\ (response'.op = "review_create") =>
             \A data \in ReviewCreateRequests, auth \in {Anonymous} \cup Guests :
                 (/\ ReviewViewSet_create(data, auth)
                  /\ data["listing_id"] \notin DOMAIN listings)
                 => (response'.code \in {400, 404} /\ reviews' = reviews)]_vars

\* the nights of a booking, counted: the days from check-in up to, and not
\* including, check-out
NightsOf(b) ==
    Cardinality({d \in Days : b.check_in_date <= d /\ d < b.check_out_date})

\* C18: for every booking duration_nights is the number of days from
\* check_in_date to check_out_date and calculate_total_price is the price per
\* night of its listing times that number; at 100 per night a stay of 2 nights
\* gives duration_nights 2 and a total price of 200.
C18_DurationAndTotalPrice ==
    \A i \in 1..Len(bookings) :
        LET b == bookings[i]
        IN  /\ duration_nights(b) = NightsOf(b)
            /\ calculate_total_price(b) = listings[b.listing].price_per_night * NightsOf(b)
            /\ (listings[b.listing].price_per_night = 100 /\ NightsOf(b) = 2)
                   => (duration_nights(b) = 2 /\ calculate_total_price(b) = 200)

\* a booking of 2 nights is stored on a listing of 100 per night
C18_Witness ==
    \E i \in 1..Len(bookings) :
        /\ bookings[i].check_in_date = 0
        /\ bookings[i].check_out_date = 2
        /\ listings[bookings[i].listing].price_per_night = 100
        /\ calculate_total_price(bookings[i]) = 200

C20_ReactivationRefusedOnOverlap ==
    [][(response'.op = "update_status") =>
        \A id \in 1..Len(bookings), data \in StatusRequests :
            (/\ update_status(id, data)
             /\ bookings[id].status \in {"cancelled", "completed"}
             /\ Has(data, "status")
             /\ data["status"] \in {"pending", "confirmed"}
             /\ OverlapsAnother(bookings, id, bookings[id]))
            => (response'.code \in {400, 409} /\ bookings' = bookings)]_vars

(***************************************************************************)
(* Properties of concurrent creates                                        *)
(***************************************************************************)
\* C21: when two creates for the same listing with overlapping date ranges
\* run at the same time, each checking for conflicts and then inserting, with
\* their steps interleaved, at most one of the two is stored as a pending or
\* confirmed booking.
C21_ConcurrentCreatesExclusive ==
    \A i \in 1..Len(bookings) : \A j \in (i + 1)..Len(bookings) :
        (/\ bookings[i].listing = bookings[j].listing
         /\ RangesOverlap(bookings[i], bookings[j]))
        => ~(Active(bookings[i]) /\ Active(bookings[j]))

(***************************************************************************)
(* Properties of completed bookings and of unavailable listings            *)
(***************************************************************************)
\* C22: no step takes a booking whose status is completed to the status
\* cancelled, whether by cancel, update_status or a full or partial update.
C22_CompletedNeverCancelled ==
    [][\A i \in 1..Len(bookings) :
          bookings[i].status = "completed" => bookings'[i].status # "cancelled"]_vars

\* C23: a create that names a listing whose available flag is false is answered
\* 400 and stores nothing, whatever its dates and guests, and every booking
\* that a step adds is on a listing that is available.
C23_UnavailableListingRejected ==
    [][/\ (response'.op = "create") =>
             \A data \in GuestCreateRequests :
                 (/\ BookingViewSet_create(data, 1)
                  /\ data["listing_id"] \in DOMAIN listings
                  /\ ~listings[data["listing_id"]].available)
                 => (response'.code = 400 /\ bookings' = bookings)
       /\ \A k \in (Len(bookings) + 1)..Len(bookings') :
             listings[bookings'[k].listing].available]_vars

\* a create on listing 1, made unavailable before any booking, was refused
C23_Witness ==
    /\ response.op = "create"
    /\ response.detail = "This listing is not available for booking"
    /\ ~listings[1].available
    /\ bookings = <<>>

====
